---------------------------- MODULE Spec2Model ----------------------------
(***************************************************************************)
(* Concrete Candy Tracker: the acquisition loops of camera.py              *)
(* (start_grabbing, grab, grab_average, __substract_data) running in their *)
(* own thread, the configuration calls of the Camera class, the OPC UA     *)
(* publisher loops of opcua_remote_server.py and opcua_write_to_server.py  *)
(* running in the asyncio main thread, and the start and stop buttons of   *)
(* the Streamlit dashboard.                                                *)
(*                                                                         *)
(* A sample is identified by the number of the successful frame it was     *)
(* computed from (1, 2, ...); 0 stands for the initial value 0.0 that      *)
(* Camera.__init__ gives each latest-value field.  A field that holds s    *)
(* holds the value __substract_data computed for that field from frame s.  *)
(***************************************************************************)
EXTENDS Integers, Sequences, FiniteSets

\* ---------------------------------------------------------------- bounds
\* Successful frames the device delivers in one run without a publisher.
MaxFrames == 2
\* Successful frames the device delivers in one run beside a publisher.
MaxPubFrames == 1
\* Client objects the publisher constructs in one run.
MaxClients == 2
\* Largest number of images asked of grab / grab_average.
MaxN == 2

\* Latest-value fields the model keeps, of the nine (r, g, b, x, y, z,
\* l_star, a_star, b_star) that are set, read and written one after another.
NFields == 3

\* Successful frames the device delivers over all the calls of one script.
SessionFrames == MaxFrames + 1

\* ------------------------------------------------------ program constants
Fields == 1..NFields

\* The float 0.0 every latest-value field is initialised with.
InitialValue == 0

\* A local of the publisher that has not been bound yet / a node of the
\* endpoint that has never been written.
Unset == -1

\* How an awaited call of the OPC UA client can end: normally, or by an
\* exception of one of the classes the except clauses tell apart.
Outcomes == {"ok", "UaError", "ConnectionError", "OtherError"}

\* The CSV files a script names (DATABASE_GREY and DATABASE_WHITE of
\* calibration_auto.py); 0 stands for the path "" of Camera.__init__.
Files == {1, 2}

\* The line "Time,R,G,B,X,Y,Z,L*,a*,b*"; a data row is the number of the
\* frame whose values it carries.
Header == 0

\* How open(file, 'a') followed by writerow can end: the line is in the
\* file; open raised; or the file was opened, and so created, and the
\* write raised.
WriteOutcomes == {"written", "open_failed", "write_failed"}

\* The device parameters set_roi, set_gain and set_exposure_time write.
Features == {"roi", "gain", "exposure_time"}

\* The white point set_whitepoint() sets by default, (0.94811, 1.0,
\* 1.07304), in units of 0.00001.
D65 == <<94811, 100000, 107304>>

\* The white point the main of camera.py sets, (0.9225, 0.9583, 1.0468).
Calibrated == <<92250, 95830, 104680>>

\* Before the first frame there is no sample.
NoSample == [rgb |-> <<>>, xyz |-> <<>>, lab |-> <<>>, whitepoint |-> <<>>]

VARIABLES
    \* ---- Camera
    operation,          \* which loop runs: start_grabbing, grab or grab_average
    n,                  \* argument of grab / grab_average
    write_to_database,  \* Camera.write_to_database
    latest,             \* the nine latest-value fields
    database,           \* lines of each CSV file, in file order
    grabbing,           \* camera.IsGrabbing()
    event,              \* the threading.Event passed to start_grabbing
    pc_a,               \* position of the acquisition thread
    wIdx,               \* next latest-value field __substract_data sets
    counter,            \* local counter of grab / grab_average
    nFrames,            \* successful retrievals so far (number of the last frame)
    retAfterSet,        \* retrievals that returned after event was set
    database_path,      \* Camera.__database
    exists,             \* the files os.path.exists finds
    img,                \* the array of the frame __substract_data works on
    color_values_arrays,    \* local list of grab_average
    average_color_values,   \* what grab_average returned (<<>>: nothing yet)
    firstFrame,         \* number of the last frame before this run started
    whitepoint,         \* Camera.whitepoint
    settings,           \* the device parameters of Features
    \* ---- publisher
    script,             \* which publisher main() runs
    pc_p,               \* position of the publisher coroutine
    client,             \* number of the Client object in use (0: none yet)
    connected,          \* clients whose session is open
    faulted,            \* clients that had a write or liveness check fail
    rIdx,               \* next camera field the tick reads
    nIdx,               \* next node the tick writes (opcua_write_to_server)
    value,              \* the locals value1..value9
    endpoint,           \* value of the nine nodes at the server
    failStreak,         \* consecutive failed connects since the last success
    waitStreak,         \* 2 s waits since the first of those failures
    stop_requested,     \* the operator has asked the publisher to stop
    \* ---- dashboard
    run,                \* st.session_state.run
    threads,            \* threads start_run has started
    pc_b,               \* position of the second thread start_run starts
    event_b,            \* the threading.Event of that thread
    wIdx_b,             \* next latest-value field that thread sets
    \* ---- __substract_data, step by step
    rgb,                \* local rgb: the three channel averages
    xyz,                \* local xyz
    lab,                \* local lab
    sample,             \* the values assigned to the fields by the last frame
    previous,           \* the values assigned by the frame before that one
    pc_c,               \* position in the arithmetic of __substract_data
    handle,             \* the file the with statement holds open (0: none)
    buffer,             \* lines written to the file object and not flushed
    \* ---- calls of the configuration methods, step by step
    calls               \* a record:
                        \*   roi     the arguments of the last set_roi
                        \*   sent    OffsetX, OffsetY, Width, Height it sent
                        \*   pc_s    position of a thread in set_database_path
                        \*   pc_w    position of a thread in set_whitepoint
                        \*   wp_arg  the arguments x, y, z of that call
                        \*   used    the self.whitepoint[i] the running
                        \*           xyz2lab has read

camVars == <<operation, n, write_to_database, latest, database, grabbing,
             event, pc_a, wIdx, counter, nFrames, retAfterSet, database_path,
             exists, img, color_values_arrays, average_color_values,
             firstFrame, whitepoint, settings>>
pubVars == <<script, pc_p, client, connected, faulted, rIdx, nIdx, value,
             endpoint, failStreak, waitStreak>>
dashVars == <<run, threads, pc_b, event_b, wIdx_b>>
colorVars == <<rgb, xyz, lab, sample, previous, pc_c>>
logVars == <<handle, buffer>>
\* The arithmetic of __substract_data and the file object of its with
\* statement, which only the specifications that follow them step by step
\* change.
detailVars == <<colorVars, logVars, calls>>
vars == <<camVars, pubVars, dashVars, stop_requested, detailVars>>

\* Variables no step of the acquisition thread touches.
confVars == <<operation, n, write_to_database, database_path, whitepoint,
              settings>>
otherVars == <<pubVars, dashVars, stop_requested, detailVars>>

\* --------------------------------------------------------------- Init
\* Camera.__init__: the fields are 0.0, nothing is logged, no path is
\* set, the white point is D65 and the device has its default settings.
InitCamera ==
    /\ latest = [f \in Fields |-> InitialValue]
    /\ grabbing = FALSE
    /\ event = FALSE
    /\ wIdx = 0
    /\ counter = 0
    /\ nFrames = 0
    /\ retAfterSet = 0
    /\ img = "none"
    /\ color_values_arrays = <<>>
    /\ average_color_values = <<>>
    /\ firstFrame = 0
    /\ whitepoint = D65
    /\ settings = [p \in Features |-> "default"]
    /\ stop_requested = FALSE
    /\ run = FALSE
    /\ threads = 0
    /\ pc_b = "idle"
    /\ event_b = FALSE
    /\ wIdx_b = 0
    /\ client = 0
    /\ connected = {}
    /\ faulted = {}
    /\ rIdx = 0
    /\ nIdx = 0
    /\ value = [f \in Fields |-> Unset]
    /\ endpoint = [f \in Fields |-> Unset]
    /\ failStreak = 0
    /\ waitStreak = 0
    /\ rgb = <<>>
    /\ xyz = <<>>
    /\ lab = <<>>
    /\ sample = NoSample
    /\ previous = NoSample
    /\ pc_c = "idle"
    /\ handle = 0
    /\ buffer = <<>>
    /\ calls = [roi |-> <<>>, sent |-> <<>>, pc_s |-> "idle", pc_w |-> 0,
                wp_arg |-> <<>>, used |-> <<>>]

\* Camera.__init__ followed by the configuration statements of the script,
\* set_database_path having written the header of its file, and the call
\* of the loop: the fields are 0.0, nothing grabs, no client exists.
Init ==
    /\ InitCamera
    /\ operation \in {"start_grabbing", "grab", "grab_average"}
    /\ n \in (IF operation = "start_grabbing" THEN {0} ELSE 1..MaxN)
    /\ write_to_database \in BOOLEAN
    /\ database_path = 1
    /\ exists = {1}
    /\ database = [f \in Files |-> IF f = 1 THEN <<Header>> ELSE <<>>]
    /\ pc_a = "call"
    /\ script \in (IF operation = "start_grabbing"
                   THEN {"none", "remote", "write_to_server"} ELSE {"none"})
    /\ pc_p = (IF script = "none" THEN "off" ELSE "client")


\* ------------------------------------------------- acquisition thread
Min(a, b) == IF a < b THEN a ELSE b
Max(a, b) == IF a < b THEN b ELSE a

\* Frames the device can still deliver in this run.
FrameLimit ==
    IF script # "none" THEN MaxPubFrames
    ELSE IF operation = "start_grabbing" THEN MaxFrames
    ELSE Max(MaxFrames, MaxN)

\* What a frame flagged as succeeded can hold: pixels of the region of
\* interest, or a malformed or zero-pixel array.  Beside a publisher the
\* model lets the device deliver well-formed frames only.
FrameKinds ==
    IF script = "none" THEN {"pixels", "malformed"} ELSE {"pixels"}

\* Variant of AfterTimeout: the event test nested in the
\* "if grab_result.GrabSucceeded()" branch, so that a timeout skips it.
AfterTimeout_CheckOnlyOnSuccess == "loop"

\* Variant of AfterTimeout: "counter += 1" outside the
\* "if grab_result.GrabSucceeded()" branch of grab and grab_average.
AfterTimeout_Counted ==
    IF operation = "start_grabbing" THEN "check" ELSE "count"

\* Variant of AfterTimeout: a retrieval without a frame ends the loop.
AfterTimeout_Break == "done"

\* Where the loop goes after a retrieval that did not succeed.  In
\* start_grabbing that is the event test, which follows the
\* "if grab_result.GrabSucceeded()" statement; grab and grab_average go
\* back to the loop test.
AfterTimeout ==
    IF operation = "start_grabbing" THEN "check" ELSE "loop"

\* Where the loop goes once __substract_data has returned.
AfterSubstractData ==
    IF operation = "start_grabbing" THEN "check" ELSE "count"

\* Variant of StartWhileGrabbing: a StartGrabbing that starts over when the
\* camera grabs already.
StartWhileGrabbing_Restart == "restart"

\* camera.StartGrabbing called while the camera grabs: pylon requires that
\* the grabbing is stopped and raises otherwise.
StartWhileGrabbing == "raise"

\* color_values_arrays = [], a fresh local list in every call.
NewList == <<>>

\* np.concatenate([rgb, xyz, lab]) of frame s, as __substract_data returns it.
ColorValues(s) == [f \in Fields |-> s]

RECURSIVE SumOf(_, _)
\* The sum of field f over the vectors of the list.
SumOf(arrays, f) ==
    IF arrays = <<>> THEN 0 ELSE Head(arrays)[f] + SumOf(Tail(arrays), f)

\* np.mean(np.stack(color_values_arrays), axis=0): per field, the sum of
\* the vectors divided by their number, kept as <<sum, number>>.
Mean(arrays) == [f \in Fields |-> <<SumOf(arrays, f), Len(arrays)>>]

\* What open(file, 'a') can do: the path "" cannot be opened.
OpenOutcomes(file) == IF file = 0 THEN {"open_failed"} ELSE WriteOutcomes

\* with open(file, 'a') as f: csv.writer(f).writerow(line)
AppendLine(file, line, out) ==
    CASE out = "written" ->
            /\ exists' = exists \cup {file}
            /\ database' = [database EXCEPT ![file] = Append(@, line)]
      [] out = "write_failed" ->
            /\ exists' = exists \cup {file}
            /\ UNCHANGED database
      [] OTHER -> UNCHANGED <<exists, database>>

\* Variant of TooFew: only a negative n returns at once.
TooFew_Negative(k) == k < 0

\* grab_average: if (n < 1), the test in front of everything else.
TooFew(k) == k < 1

\* np.zeros(9, dtype=float), as a vector of <<sum, number>>.
Zeros == [f \in Fields |-> <<0, 1>>]

\* grab_average: if (n < 1): return np.zeros(9, dtype=float)
ReturnZeros ==
    /\ pc_a = "call"
    /\ operation = "grab_average"
    /\ TooFew(n)
    /\ average_color_values' = Zeros
    /\ pc_a' = "done"
    /\ UNCHANGED <<confVars, latest, database, exists, grabbing, event, wIdx,
                   counter, nFrames, retAfterSet, img, color_values_arrays,
                   firstFrame, otherVars>>

\* camera.StartGrabbing(pylon.GrabStrategy_LatestImageOnly) and the locals
\* of the loop.
StartGrabbing ==
    /\ pc_a = "call"
    /\ ~(operation = "grab_average" /\ TooFew(n))
    /\ IF grabbing /\ StartWhileGrabbing = "raise"
       THEN /\ pc_a' = "raised"
            /\ \E stopped \in BOOLEAN : grabbing' = ~stopped
            /\ UNCHANGED <<counter, firstFrame, color_values_arrays>>
       ELSE /\ grabbing' = TRUE
            /\ counter' = 0
            /\ firstFrame' = nFrames
            /\ color_values_arrays' =
                  (IF operation = "grab_average" THEN NewList
                   ELSE color_values_arrays)
            /\ pc_a' = "loop"
    /\ UNCHANGED <<confVars, latest, database, exists, event, wIdx, nFrames,
                   retAfterSet, img, average_color_values, otherVars>>

\* while self.camera.IsGrabbing(): enter RetrieveResult or leave the loop;
\* after its loop grab_average stacks the list and returns the mean.
LoopTest ==
    /\ pc_a = "loop"
    /\ IF grabbing
       THEN pc_a' = "retrieving" /\ UNCHANGED average_color_values
       ELSE IF operation # "grab_average"
       THEN pc_a' = "done" /\ UNCHANGED average_color_values
       ELSE IF color_values_arrays = <<>>
       THEN pc_a' = "raised" /\ UNCHANGED average_color_values
       ELSE /\ pc_a' = "done"
            /\ average_color_values' = Mean(color_values_arrays)
    /\ UNCHANGED <<confVars, latest, database, exists, grabbing, event, wIdx,
                   counter, nFrames, retAfterSet, img, color_values_arrays,
                   firstFrame, otherVars>>

\* self.camera.RetrieveResult(1000, pylon.TimeoutHandling_Return) returns,
\* with a frame (GrabSucceeded) or without one (timeout).
RetrieveResult ==
    /\ pc_a = "retrieving"
    /\ retAfterSet' = (IF event THEN Min(retAfterSet + 1, 2) ELSE retAfterSet)
    /\ \E result \in {"timeout"} \cup FrameKinds :
          IF result # "timeout"
          THEN /\ nFrames - firstFrame < FrameLimit
               /\ nFrames < SessionFrames
               /\ nFrames' = nFrames + 1
               /\ img' = result
               /\ wIdx' = 1
               /\ pc_a' = "store"
          ELSE /\ pc_a' = AfterTimeout
               /\ UNCHANGED <<nFrames, wIdx, img>>
    /\ UNCHANGED <<confVars, latest, database, exists, grabbing, event,
                   counter, color_values_arrays, average_color_values,
                   firstFrame, otherVars>>

\* __substract_data: self.r = r ... self.b_star = b_star, one attribute
\* assignment at a time.
SetField ==
    /\ pc_a = "store"
    /\ latest' = [latest EXCEPT ![wIdx] = nFrames]
    /\ IF wIdx < NFields
       THEN wIdx' = wIdx + 1 /\ pc_a' = "store"
       ELSE wIdx' = 0 /\ pc_a' = "log"
    /\ UNCHANGED <<confVars, database, exists, grabbing, event, counter,
                   nFrames, retAfterSet, img, color_values_arrays,
                   average_color_values, firstFrame, otherVars>>

\* __substract_data: the row is appended when write_to_database is True;
\* open() or writerow() may raise, and nothing in the loops catches it.
WriteRow ==
    /\ pc_a = "log"
    /\ IF write_to_database
       THEN \E out \in OpenOutcomes(database_path) :
               /\ AppendLine(database_path, nFrames, out)
               /\ pc_a' = (IF out = "written" THEN AfterSubstractData
                           ELSE "raised")
               /\ img' = (IF out = "written" THEN "none" ELSE img)
       ELSE /\ pc_a' = AfterSubstractData
            /\ img' = "none"
            /\ UNCHANGED <<database, exists>>
    /\ UNCHANGED <<confVars, latest, grabbing, event, wIdx, counter, nFrames,
                   retAfterSet, color_values_arrays, average_color_values,
                   firstFrame, otherVars>>

\* grab / grab_average: (color_values_arrays.append(color_values);)
\* counter += 1; if counter == n: StopGrabbing().
Count ==
    /\ pc_a = "count"
    /\ color_values_arrays' =
          (IF operation = "grab_average"
           THEN Append(color_values_arrays, ColorValues(nFrames))
           ELSE color_values_arrays)
    /\ counter' = counter + 1
    /\ grabbing' = (IF counter + 1 = n THEN FALSE ELSE grabbing)
    /\ pc_a' = "loop"
    /\ UNCHANGED <<confVars, latest, database, exists, event, wIdx, nFrames,
                   retAfterSet, img, average_color_values, firstFrame,
                   otherVars>>

\* start_grabbing: if event.is_set(): StopGrabbing(); break.
CheckEvent ==
    /\ pc_a = "check"
    /\ IF event
       THEN grabbing' = FALSE /\ pc_a' = "done"
       ELSE grabbing' = grabbing /\ pc_a' = "loop"
    /\ UNCHANGED <<confVars, latest, database, exists, event, wIdx, counter,
                   nFrames, retAfterSet, img, color_values_arrays,
                   average_color_values, firstFrame, otherVars>>

\* event.set(), by whoever holds the event.
SetEvent ==
    /\ operation = "start_grabbing"
    /\ ~event
    /\ event' = TRUE
    /\ UNCHANGED <<confVars, latest, database, exists, grabbing, pc_a, wIdx,
                   counter, nFrames, retAfterSet, img, color_values_arrays,
                   average_color_values, firstFrame, otherVars>>

Acquire ==
    \/ StartGrabbing
    \/ LoopTest
    \/ RetrieveResult
    \/ SetField
    \/ WriteRow
    \/ Count
    \/ CheckEvent


\* ---------------------------------------------------------- publisher
\* The except clauses of main(): ua.UaError is logged and the outer loop
\* goes on at once; ConnectionError is logged and followed by
\* asyncio.sleep(2); any other exception leaves main().
Handler(out) ==
    CASE out = "UaError" -> "client"
      [] out = "ConnectionError" -> "backoff"
      [] OTHER -> "dead"

\* Variant of ClientExit: the session kept open when the block is left by
\* an exception, as with a bare "await client.connect()".
ClientExit_Leak == connected

\* "async with client" left by an exception: Client.__aexit__ disconnects.
ClientExit == connected \ {client}

\* Variant of AfterFault: the failure caught inside the inner loop, which
\* goes on with its next tick on the same client.
AfterFault_Resume(out) == "read"

\* Where main() goes when write_values, write_value or check_connection
\* raises inside the session: out of both loops' bodies, to the handler.
AfterFault(out) == Handler(out)

\* A write or the liveness check of the open session raises.
Fault(out) ==
    /\ faulted' = faulted \cup {client}
    /\ pc_p' = AfterFault(out)
    /\ connected' = (IF AfterFault(out) = "read" THEN connected ELSE ClientExit)
    /\ rIdx' = (IF AfterFault(out) = "read" THEN 1 ELSE 0)
    /\ nIdx' = 0

\* Variant of InnerLoop: a tick loop that runs only while the acquisition
\* thread is alive and leaves main() when it is not.
InnerLoop_WhileAcquiring ==
    IF pc_a \in {"done", "raised"} THEN "dead" ELSE "read"

\* The inner "while True:" of main(): its test sends the publisher into
\* the next tick whatever the acquisition thread does.
InnerLoop == "read"

\* client = Client(url=SERVER_ENDPOINT), at the top of the outer loop.
NewClient ==
    /\ pc_p = "client"
    /\ client < MaxClients
    /\ client' = client + 1
    /\ pc_p' = "connect"
    /\ UNCHANGED <<script, connected, faulted, rIdx, nIdx, value, endpoint,
                   failStreak, waitStreak, camVars, dashVars,
                   stop_requested,
                   detailVars>>

\* "async with client": Client.__aenter__ connects, or raises.
Connect ==
    /\ pc_p = "connect"
    /\ \E out \in Outcomes :
          IF out = "ok"
          THEN /\ connected' = connected \cup {client}
               /\ pc_p' = InnerLoop
               /\ rIdx' = 1
               /\ failStreak' = 0
               /\ waitStreak' = 0
          ELSE /\ pc_p' = Handler(out)
               /\ failStreak' = failStreak + 1
               /\ waitStreak' = (IF failStreak = 0 THEN 0 ELSE waitStreak)
               /\ UNCHANGED <<connected, rIdx>>
    /\ UNCHANGED <<script, client, faulted, nIdx, value, endpoint, camVars,
                   dashVars, stop_requested,
                   detailVars>>

\* Variant of Attribute: a reader that keeps the value it read first.
Attribute_Cached(f) == IF value[f] # Unset THEN value[f] ELSE latest[f]

\* camera.r ... camera.b_star: reading an attribute of the Camera object
\* gives the value it holds at that moment.
Attribute(f) == latest[f]

\* value1 = ua.DataValue(ua.Variant(camera.r, ...)) ... value9: one
\* attribute read at a time.
ReadField ==
    /\ pc_p = "read"
    /\ value' = [value EXCEPT ![rIdx] = Attribute(rIdx)]
    /\ IF rIdx < NFields
       THEN rIdx' = rIdx + 1 /\ pc_p' = "read" /\ nIdx' = nIdx
       ELSE rIdx' = 0 /\ pc_p' = "write" /\ nIdx' = 1
    /\ UNCHANGED <<script, client, connected, faulted, endpoint, failStreak,
                   waitStreak, camVars, dashVars,
                   stop_requested,
                   detailVars>>

\* opcua_remote_server: await client.write_values(nodes, [value1..value9]).
WriteValues ==
    /\ pc_p = "write"
    /\ script = "remote"
    /\ \E out \in Outcomes :
          IF out = "ok"
          THEN /\ endpoint' = value
               /\ pc_p' = "sleep"
               /\ nIdx' = 0
               /\ UNCHANGED <<connected, faulted, rIdx>>
          ELSE /\ Fault(out)
               /\ UNCHANGED endpoint
    /\ UNCHANGED <<script, client, value, failStreak, waitStreak, camVars,
                   dashVars, stop_requested,
                   detailVars>>

\* opcua_write_to_server: await node1.write_value(value1) ... node9.
WriteValue ==
    /\ pc_p = "write"
    /\ script = "write_to_server"
    /\ \E out \in Outcomes :
          IF out = "ok"
          THEN /\ endpoint' = [endpoint EXCEPT ![nIdx] = value[nIdx]]
               /\ IF nIdx < NFields
                  THEN nIdx' = nIdx + 1 /\ pc_p' = "write"
                  ELSE nIdx' = 0 /\ pc_p' = "sleep"
               /\ UNCHANGED <<connected, faulted, rIdx>>
          ELSE /\ Fault(out)
               /\ UNCHANGED endpoint
    /\ UNCHANGED <<script, client, value, failStreak, waitStreak, camVars,
                   dashVars, stop_requested,
                   detailVars>>

\* await asyncio.sleep(1), between the writes and the liveness check.
Sleep ==
    /\ pc_p = "sleep"
    /\ pc_p' = "check_connection"
    /\ UNCHANGED <<script, client, connected, faulted, rIdx, nIdx, value,
                   endpoint, failStreak, waitStreak, camVars, dashVars,
                   stop_requested,
                   detailVars>>

\* await client.check_connection(): returns, or raises when the
\* connection is lost.
CheckConnection ==
    /\ pc_p = "check_connection"
    /\ \E out \in Outcomes :
          IF out = "ok"
          THEN /\ pc_p' = InnerLoop
               /\ rIdx' = 1
               /\ UNCHANGED <<connected, faulted, nIdx>>
          ELSE Fault(out)
    /\ UNCHANGED <<script, client, value, endpoint, failStreak, waitStreak,
                   camVars, dashVars, stop_requested,
                   detailVars>>

\* except ConnectionError: await asyncio.sleep(2).
Backoff ==
    /\ pc_p = "backoff"
    /\ waitStreak' = waitStreak + 1
    /\ pc_p' = "client"
    /\ UNCHANGED <<script, client, connected, faulted, rIdx, nIdx, value,
                   endpoint, failStreak, camVars, dashVars,
                   stop_requested,
                   detailVars>>

Publish ==
    \/ NewClient
    \/ Connect
    \/ ReadField
    \/ WriteValues
    \/ WriteValue
    \/ Sleep
    \/ CheckConnection
    \/ Backoff


\* request, by the operator, that the publisher stop.  main() has no
\* parameter, event or flag that could carry it.
RequestStop ==
    /\ script # "none"
    /\ ~stop_requested
    /\ stop_requested' = TRUE
    /\ UNCHANGED <<camVars, pubVars, dashVars, detailVars>>


\* ------------------------------------------- calls and configuration
\* No loop of the camera runs: the script is between two calls.
NoLoopRuns ==
    script = "none" /\ threads = 0 /\ pc_a = "idle" /\ pc_c = "idle"

\* camera.grab(n), camera.grab_average(n), or a thread started on
\* camera.start_grabbing with an event of its own.
Call ==
    /\ NoLoopRuns
    /\ \E op \in {"start_grabbing", "grab", "grab_average"}, k \in 1..MaxN :
          /\ operation' = op
          /\ n' = (IF op = "start_grabbing" THEN 0 ELSE k)
    /\ pc_a' = "call"
    /\ UNCHANGED <<write_to_database, latest, database, grabbing, event, wIdx,
                   counter, nFrames, retAfterSet, database_path, exists, img,
                   color_values_arrays, average_color_values, firstFrame,
                   whitepoint, settings, otherVars>>

\* The call returns to the script (the thread of start_grabbing ends): its
\* arguments, its locals and its event are gone.
Return ==
    /\ script = "none"
    /\ threads = 0
    /\ pc_a = "done"
    /\ pc_a' = "idle"
    /\ operation' = "none"
    /\ n' = 0
    /\ event' = FALSE
    /\ counter' = 0
    /\ retAfterSet' = 0
    /\ color_values_arrays' = <<>>
    /\ average_color_values' = <<>>
    /\ UNCHANGED <<write_to_database, latest, database, grabbing, wIdx,
                   nFrames, database_path, exists, img, firstFrame,
                   whitepoint, settings, otherVars>>

\* set_database_path(file): the path is stored, and a file that does not
\* exist gets the header; an exception of open or writerow is logged.
set_database_path(file) ==
    /\ NoLoopRuns
    /\ database_path' = file
    /\ IF file \notin exists
       THEN \E out \in WriteOutcomes : AppendLine(file, Header, out)
       ELSE UNCHANGED <<exists, database>>
    /\ UNCHANGED <<operation, n, write_to_database, latest, grabbing, event,
                   pc_a, wIdx, counter, nFrames, retAfterSet, img,
                   color_values_arrays, average_color_values, firstFrame,
                   whitepoint, settings, otherVars>>

\* camera.write_to_database = True / False
SetWriteToDatabase ==
    /\ NoLoopRuns
    /\ write_to_database' = ~write_to_database
    /\ UNCHANGED <<operation, n, latest, database, grabbing, event, pc_a,
                   wIdx, counter, nFrames, retAfterSet, database_path, exists,
                   img, color_values_arrays, average_color_values, firstFrame,
                   whitepoint, settings, otherVars>>

\* Variables the configuration of the white point and of the device
\* leaves alone.
runVars == <<operation, n, write_to_database, database, grabbing, event,
             pc_a, wIdx, counter, nFrames, retAfterSet, database_path,
             exists, img, color_values_arrays, average_color_values,
             firstFrame>>

\* set_whitepoint(x, y, z), D65 by default.
set_whitepoint(wp) ==
    /\ NoLoopRuns
    /\ whitepoint' = wp
    /\ UNCHANGED <<runVars, latest, settings, otherVars>>

\* set_roi, set_gain, set_exposure_time: SetValue on the device.
SetFeature(p, v) ==
    /\ NoLoopRuns
    /\ settings' = [settings EXCEPT ![p] = v]
    /\ UNCHANGED <<runVars, latest, whitepoint, otherVars>>

set_roi == \E v \in {"default", "custom"} : SetFeature("roi", v)

set_gain == SetFeature("gain", "custom")

set_exposure_time == SetFeature("exposure_time", "custom")

\* Variant of ResetFields: a reset that also puts the latest-value fields
\* back to the 0.0 of Camera.__init__.
ResetFields_Zeroed == [f \in Fields |-> InitialValue]

\* The latest-value fields after reset(), which assigns none of them.
ResetFields == latest

\* reset(): open(), set_whitepoint(), set_default_camera_settings(),
\* set_roi().
reset ==
    /\ NoLoopRuns
    /\ whitepoint' = D65
    /\ settings' = [p \in Features |-> "default"]
    /\ latest' = ResetFields
    /\ UNCHANGED <<runVars, otherVars>>

Configure ==
    \/ \E wp \in {D65, Calibrated} : set_whitepoint(wp)
    \/ set_roi
    \/ set_gain
    \/ set_exposure_time
    \/ reset


\* ------------------------------------------------------------ dashboard
\* start_run: run = True, a new Event, a new Thread on
\* camera.start_grabbing, started without waiting for the one before.
start_run ==
    /\ ~run
    /\ threads < 2
    /\ run' = TRUE
    /\ threads' = threads + 1
    /\ IF threads = 0
       THEN /\ operation' = "start_grabbing"
            /\ event' = FALSE
            /\ pc_a' = "call"
            /\ UNCHANGED <<pc_b, event_b>>
       ELSE /\ event_b' = FALSE
            /\ pc_b' = "call"
            /\ UNCHANGED <<operation, event, pc_a>>
    /\ UNCHANGED <<n, write_to_database, latest, database, grabbing, wIdx,
                   counter, nFrames, retAfterSet, database_path, exists, img,
                   color_values_arrays, average_color_values, firstFrame,
                   whitepoint, settings, pubVars, wIdx_b, stop_requested,
                   detailVars>>

\* stop_run: run = False, st.session_state.event.set().
stop_run ==
    /\ run
    /\ run' = FALSE
    /\ IF threads = 1
       THEN event' = TRUE /\ UNCHANGED event_b
       ELSE event_b' = TRUE /\ UNCHANGED event
    /\ UNCHANGED <<confVars, latest, database, exists, grabbing, pc_a, wIdx,
                   counter, nFrames, retAfterSet, img, color_values_arrays,
                   average_color_values, firstFrame, pubVars, threads, pc_b,
                   wIdx_b, stop_requested,
                   detailVars>>

\* Variables of the first thread, which the second leaves alone.
firstVars == <<confVars, event, pc_a, wIdx, counter, retAfterSet,
               color_values_arrays, average_color_values, firstFrame>>

\* start_grabbing in the second thread: camera.StartGrabbing(...).
StartGrabbing_b ==
    /\ pc_b = "call"
    /\ IF grabbing /\ StartWhileGrabbing = "raise"
       THEN /\ pc_b' = "raised"
            /\ \E stopped \in BOOLEAN : grabbing' = ~stopped
       ELSE /\ grabbing' = TRUE
            /\ pc_b' = "loop"
    /\ UNCHANGED <<firstVars, latest, database, exists, nFrames, img, pubVars,
                   run, threads, event_b, wIdx_b, stop_requested,
                   detailVars>>

\* while self.camera.IsGrabbing():
LoopTest_b ==
    /\ pc_b = "loop"
    /\ pc_b' = (IF grabbing THEN "retrieving" ELSE "done")
    /\ UNCHANGED <<firstVars, latest, database, exists, grabbing, nFrames,
                   img, pubVars, run, threads, event_b, wIdx_b,
                   stop_requested,
                   detailVars>>

\* self.camera.RetrieveResult(1000, pylon.TimeoutHandling_Return)
RetrieveResult_b ==
    /\ pc_b = "retrieving"
    /\ \E result \in {"timeout"} \cup FrameKinds :
          IF result # "timeout"
          THEN /\ nFrames < SessionFrames
               /\ nFrames' = nFrames + 1
               /\ img' = result
               /\ wIdx_b' = 1
               /\ pc_b' = "store"
          ELSE /\ pc_b' = "check"
               /\ UNCHANGED <<nFrames, wIdx_b, img>>
    /\ UNCHANGED <<firstVars, latest, database, exists, grabbing, pubVars,
                   run, threads, event_b, stop_requested,
                   detailVars>>

\* __substract_data: self.r = r ... self.b_star = b_star
SetField_b ==
    /\ pc_b = "store"
    /\ latest' = [latest EXCEPT ![wIdx_b] = nFrames]
    /\ IF wIdx_b < NFields
       THEN wIdx_b' = wIdx_b + 1 /\ pc_b' = "store"
       ELSE wIdx_b' = 0 /\ pc_b' = "log"
    /\ UNCHANGED <<firstVars, database, exists, grabbing, nFrames, img,
                   pubVars, run, threads, event_b, stop_requested,
                   detailVars>>

\* __substract_data: if self.write_to_database == True: append the row.
WriteRow_b ==
    /\ pc_b = "log"
    /\ IF write_to_database
       THEN \E out \in OpenOutcomes(database_path) :
               /\ AppendLine(database_path, nFrames, out)
               /\ pc_b' = (IF out = "written" THEN "check" ELSE "raised")
               /\ img' = (IF out = "written" THEN "none" ELSE img)
       ELSE /\ pc_b' = "check"
            /\ img' = "none"
            /\ UNCHANGED <<database, exists>>
    /\ UNCHANGED <<firstVars, latest, grabbing, nFrames, pubVars, run,
                   threads, event_b, wIdx_b, stop_requested,
                   detailVars>>

\* if event.is_set(): StopGrabbing(); break.
CheckEvent_b ==
    /\ pc_b = "check"
    /\ IF event_b
       THEN grabbing' = FALSE /\ pc_b' = "done"
       ELSE grabbing' = grabbing /\ pc_b' = "loop"
    /\ UNCHANGED <<firstVars, latest, database, exists, nFrames, img, pubVars,
                   run, threads, event_b, wIdx_b, stop_requested,
                   detailVars>>

Acquire_b ==
    \/ StartGrabbing_b
    \/ LoopTest_b
    \/ RetrieveResult_b
    \/ SetField_b
    \/ WriteRow_b
    \/ CheckEvent_b


\* ------------------------------------------- the append, step by step
\* Variant of HandleAfterWith: a file object opened once and kept for the
\* next frame.
HandleAfterWith_KeptOpen == handle

\* The file object once the with statement is left, by its end or by an
\* exception: closed.
HandleAfterWith == 0

\* The part of a row that reached the file when its write failed.
Partial(s) == 0 - s

\* if self.write_to_database == True: with open(self.__database, 'a',
\* newline='') as file: open creates the file it does not find, or raises.
OpenLog ==
    /\ pc_a = "log"
    /\ IF write_to_database
       THEN \E out \in OpenOutcomes(database_path) \ {"write_failed"} :
               IF out = "written"
               THEN /\ handle' = database_path
                    /\ exists' = exists \cup {database_path}
                    /\ pc_a' = "writerow"
                    /\ UNCHANGED img
               ELSE /\ pc_a' = "raised"
                    /\ UNCHANGED <<handle, exists, img>>
       ELSE /\ pc_a' = AfterSubstractData
            /\ img' = "none"
            /\ UNCHANGED <<handle, exists>>
    /\ UNCHANGED <<confVars, latest, database, grabbing, event, wIdx, counter,
                   nFrames, retAfterSet, color_values_arrays,
                   average_color_values, firstFrame, pubVars, dashVars,
                   stop_requested, colorVars, calls, buffer>>

\* writer.writerow([t, "{0:.3f}".format(r), ...]): the row goes to the
\* file object.
Writerow ==
    /\ pc_a = "writerow"
    /\ buffer' = Append(buffer, nFrames)
    /\ pc_a' = "close"
    /\ UNCHANGED <<confVars, latest, database, exists, grabbing, event, wIdx,
                   counter, nFrames, retAfterSet, img, color_values_arrays,
                   average_color_values, firstFrame, pubVars, dashVars,
                   stop_requested, colorVars, calls, handle>>

\* The end of the with statement: the file object is flushed and closed,
\* or the flush raises, with nothing or a part of the row in the file.
CloseLog ==
    /\ pc_a = "close"
    /\ handle' = HandleAfterWith
    /\ \E out \in {"written", "write_failed"} :
          IF out = "written"
          THEN /\ database' = [database EXCEPT ![handle] = @ \o buffer]
               /\ buffer' = (IF HandleAfterWith = 0 THEN <<>> ELSE buffer)
               /\ pc_a' = AfterSubstractData
               /\ img' = "none"
          ELSE /\ \E part \in BOOLEAN :
                     database' =
                        (IF part
                         THEN [database EXCEPT
                                  ![handle] = Append(@, Partial(nFrames))]
                         ELSE database)
               /\ buffer' = <<>>
               /\ pc_a' = "raised"
               /\ UNCHANGED img
    /\ UNCHANGED <<confVars, latest, exists, grabbing, event, wIdx, counter,
                   nFrames, retAfterSet, color_values_arrays,
                   average_color_values, firstFrame, pubVars, dashVars,
                   stop_requested, colorVars, calls>>

\* The loops with the append of __substract_data taken step by step.
AcquireLog ==
    \/ StartGrabbing
    \/ LoopTest
    \/ RetrieveResult
    \/ SetField
    \/ OpenLog
    \/ Writerow
    \/ CloseLog
    \/ Count
    \/ CheckEvent


\* ------------------------------------------------ colour conversion
\* The numbers of the conversion are kept as integers on decimal grids:
\* a channel average in millionths, a channel divided by 255, an xyz value
\* and a ratio to the white point in units of 10^-8, a value of the
\* response function f in units of 1/116 millionths (on that grid
\* _DELTA = 16/116 is exact, and 116.0*f is f in millionths), and an lab
\* value in millionths.  An operation whose result falls between two grid
\* points gives the lower one.
Micro == 10^6

\* floor(a * b / c), for b * c small enough to be computed directly.
MulDiv(a, b, c) == (a \div c) * b + ((a % c) * b) \div c

RECURSIVE QuotRem(_, _, _)
\* <<floor(a * 10^k / c), the remainder>>, one decimal digit at a time.
QuotRem(a, c, k) ==
    IF k = 0 THEN <<a \div c, a % c>>
    ELSE LET p == QuotRem(a, c, k - 1)
         IN  <<p[1] * 10 + (p[2] * 10) \div c, (p[2] * 10) % c>>

\* floor(a * b / 10^8) of two numbers in units of 10^-8, from their halves
\* of four decimal digits.
Mul8(a, b) ==
    LET ah == a \div 10^4
        al == a % 10^4
        bh == b \div 10^4
        bl == b % 10^4
    IN  ah * bh + (ah * bl + al * bh + (al * bl) \div 10^4) \div 10^4

RECURSIVE CubeRootIn(_, _, _)
\* The largest k of lo..hi whose cube is at most t, in units of 10^-8.
CubeRootIn(t, lo, hi) ==
    IF lo = hi THEN lo
    ELSE LET mid == (lo + hi + 1) \div 2
         IN  IF Mul8(Mul8(mid, mid), mid) <= t
             THEN CubeRootIn(t, mid, hi)
             ELSE CubeRootIn(t, lo, mid - 1)

\* What a division of numpy floats by 0.0 gives, inf or nan, and whatever
\* is computed from it: no exception is raised.
NotFinite == 2000000000

\* np.round(v, decimals), with m grid steps of v to one step of the
\* result: to the nearest, a tie to the even one.
Round(v, m) ==
    IF v = NotFinite THEN NotFinite
    ELSE LET q == v \div m
             r == v % m
         IN  IF 2 * r > m \/ (2 * r = m /\ q % 2 = 1) THEN q + 1 ELSE q

\* _B11 ... _B33, in units of 0.0001.
_B11 == 4124
_B12 == 3576
_B13 == 1805
_B21 == 2126
_B22 == 7152
_B23 == 722
_B31 == 193
_B32 == 1192
_B33 == 9505

\* _DELTA = 16.0/116.0, in the units of f.
_DELTA == 16 * Micro

\* _DELTA**3.0, in the units of a ratio: the last grid point that is not
\* above (16/116)^3.
Delta3 == QuotRem(16 * 16 * 16, 116 * 116 * 116, 8)[1]

\* Variant of rgb2xyz: the matrix applied transposed.
rgb2xyz_Transposed(c) ==
    LET r == MulDiv(c[1], 100, 255)
        g == MulDiv(c[2], 100, 255)
        b == MulDiv(c[3], 100, 255)
    IN  [i \in 1..3 |->
            CASE i = 1 -> MulDiv(r, _B11, 10^4) + MulDiv(g, _B21, 10^4)
                              + MulDiv(b, _B31, 10^4)
              [] i = 2 -> MulDiv(r, _B12, 10^4) + MulDiv(g, _B22, 10^4)
                              + MulDiv(b, _B32, 10^4)
              [] i = 3 -> MulDiv(r, _B13, 10^4) + MulDiv(g, _B23, 10^4)
                              + MulDiv(b, _B33, 10^4)]

\* rgb2xyz: r = rgb[0]/255 ...; xyz[0] = _B11*r + _B12*g + _B13*b ...
rgb2xyz(c) ==
    LET r == MulDiv(c[1], 100, 255)
        g == MulDiv(c[2], 100, 255)
        b == MulDiv(c[3], 100, 255)
    IN  [i \in 1..3 |->
            CASE i = 1 -> MulDiv(r, _B11, 10^4) + MulDiv(g, _B12, 10^4)
                              + MulDiv(b, _B13, 10^4)
              [] i = 2 -> MulDiv(r, _B21, 10^4) + MulDiv(g, _B22, 10^4)
                              + MulDiv(b, _B23, 10^4)
              [] i = 3 -> MulDiv(r, _B31, 10^4) + MulDiv(g, _B32, 10^4)
                              + MulDiv(b, _B33, 10^4)]

\* xyz[i]/self.whitepoint[i]
Ratio(v, w) == IF w = 0 THEN NotFinite ELSE QuotRem(v, w, 5)[1]

\* (t)**(1.0/3.0), in the units of f.
CubeRootBranch(t) == MulDiv(CubeRootIn(t, 0, 2 * 10^8), 116, 100)

\* (t)/(3.0*_DELTA**2.0) + _DELTA, in the units of f.
LinearBranch(t) ==
    MulDiv(MulDiv(t, 116 * 116, 3 * 16 * 16), 116, 100) + _DELTA

\* Variant of Response: one branch for every ratio.
Response_CubeRootOnly(t) ==
    IF t = NotFinite THEN NotFinite ELSE CubeRootBranch(t)

\* if t > _DELTA**3.0: fx = t**(1.0/3.0)  else: fx = t/(3.0*_DELTA**2.0)
\* + _DELTA, the same statement for each of the three channels.
Response(t) ==
    IF t = NotFinite THEN NotFinite
    ELSE IF t > Delta3 THEN CubeRootBranch(t)
    ELSE LinearBranch(t)

\* xyz2lab: lab[0] = 116.0*fy - 16.0; lab[1] = 500.0*fx - 500.0*fy;
\* lab[2] = 200.0*fy - 200.0*fz
xyz2lab(v, wp) ==
    LET fx == Response(Ratio(v[1], wp[1]))
        fy == Response(Ratio(v[2], wp[2]))
        fz == Response(Ratio(v[3], wp[3]))
    IN  [i \in 1..3 |->
            CASE i = 1 -> IF fy = NotFinite THEN NotFinite
                          ELSE fy - 16 * Micro
              [] i = 2 -> IF NotFinite \in {fx, fy} THEN NotFinite
                          ELSE MulDiv(fx, 500, 116) - MulDiv(fy, 500, 116)
              [] i = 3 -> IF NotFinite \in {fy, fz} THEN NotFinite
                          ELSE MulDiv(fy, 200, 116) - MulDiv(fz, 200, 116)]

\* rgb2lab: self.xyz2lab(self.rgb2xyz(rgb))
rgb2lab(c, wp) == xyz2lab(rgb2xyz(c), wp)

\* Channel averages np.average(img[0::3]) ... of frames the camera can
\* deliver, in millionths: black, white, two colours, one pixel value in
\* one channel, and frames that differ from another by less than 0.001.
Frames ==
    { <<0, 0, 0>>, <<255 * Micro, 255 * Micro, 255 * Micro>>,
      <<128 * Micro, 64 * Micro, 32 * Micro>>, <<Micro, 0, 0>>,
      <<0, Micro, 0>>, <<400, 400, 400>>,
      <<0, 935618, 0>>, <<0, 935621, 0>> }

\* White points a script may pass to set_whitepoint.
WhitePoints == {D65, Calibrated, <<0, 100000, 100000>>}

\* r = np.round(rgb[0], 3) ... b_star = np.round(lab[2], 6): what is
\* assigned to the fields and formatted into the row, with the white
\* point it was computed under.
Rounded(c, v, l, wp) ==
    [rgb |-> [i \in 1..3 |-> Round(c[i], 1000)],
     xyz |-> [i \in 1..3 |-> Round(v[i], 100)],
     lab |-> [i \in 1..3 |-> Round(l[i], 1)],
     whitepoint |-> wp]

\* What the acquisition loops and the rest of the program keep while
\* __substract_data computes.
stillVars == <<camVars, pubVars, dashVars, stop_requested, logVars,
               calls>>

\* img = grab_result.GetArray().flatten(); rgb = np.array([np.average(...
AverageChannels ==
    /\ pc_c = "idle"
    /\ \E frame \in Frames : rgb' = frame
    /\ pc_c' = "rgb"
    /\ UNCHANGED <<xyz, lab, sample, previous, stillVars>>

\* xyz = self.rgb2xyz(rgb)
ConvertToXyz ==
    /\ pc_c = "rgb"
    /\ xyz' = rgb2xyz(rgb)
    /\ pc_c' = "xyz"
    /\ UNCHANGED <<rgb, lab, sample, previous, stillVars>>

\* lab = self.xyz2lab(xyz)
ConvertToLab ==
    /\ pc_c = "xyz"
    /\ lab' = xyz2lab(xyz, whitepoint)
    /\ pc_c' = "lab"
    /\ UNCHANGED <<rgb, xyz, sample, previous, stillVars>>

\* self.r = r ... self.b_star = b_star, and the row of the same values.
StoreSample ==
    /\ pc_c = "lab"
    /\ sample' = Rounded(rgb, xyz, lab, whitepoint)
    /\ previous' = sample
    /\ rgb' = <<>>
    /\ xyz' = <<>>
    /\ lab' = <<>>
    /\ pc_c' = "idle"
    /\ UNCHANGED stillVars

SubstractData ==
    \/ AverageChannels
    \/ ConvertToXyz
    \/ ConvertToLab
    \/ StoreSample


\* ------------------------------------------------------ specifications
Next == Acquire \/ SetEvent \/ Publish

Spec == Init /\ [][Next]_vars

TypeOK ==
    /\ pc_a \in {"idle", "call", "loop", "retrieving", "store", "log",
                 "writerow", "close", "count", "check", "done", "raised"}
    /\ pc_b \in {"idle", "call", "loop", "retrieving", "store", "log",
                 "check", "done", "raised"}
    /\ pc_p \in {"off", "client", "connect", "read", "write", "sleep",
                 "check_connection", "backoff", "dead"}
    /\ latest \in [Fields -> 0..SessionFrames]
    /\ value \in [Fields -> {Unset} \cup 0..MaxPubFrames]
    /\ endpoint \in [Fields -> {Unset} \cup 0..MaxPubFrames]
    /\ client \in 0..MaxClients
    /\ connected \subseteq 1..MaxClients
    /\ faulted \subseteq 1..MaxClients
    /\ database_path \in {0} \cup Files
    /\ exists \subseteq Files
    /\ img \in {"none", "pixels", "malformed"}
    /\ nFrames \in 0..SessionFrames
    /\ pc_c \in {"idle", "rgb", "xyz", "lab"}
    /\ whitepoint \in [1..3 -> Nat]
    /\ calls.pc_s \in {"idle", "exists", "header"}
    /\ calls.pc_w \in 0..3
    /\ Len(calls.used) <= 6
    /\ handle \in {0} \cup Files


\* The camera's loops alone, as in a script that starts no publisher.
InitAcq == Init /\ script = "none"

NextAcq == Acquire \/ SetEvent

\* The thread that runs the loop is scheduled again and again, and every
\* RetrieveResult returns within its 1000 ms timeout.
AcqSpec == InitAcq /\ [][NextAcq]_vars /\ WF_vars(Acquire)

\* A script such as calibration.py: after Camera(ip) it sets the path of
\* the CSV file and write_to_database and calls the loops, one after
\* another.
InitCalls ==
    /\ InitCamera
    /\ operation = "none"
    /\ n = 0
    /\ write_to_database = FALSE
    /\ database_path = 0
    /\ exists = {}
    /\ database = [f \in Files |-> <<>>]
    /\ pc_a = "idle"
    /\ script = "none"
    /\ pc_p = "off"

LogConfig ==
    \/ \E file \in Files : set_database_path(file)
    \/ SetWriteToDatabase

NextCalls == Acquire \/ SetEvent \/ Call \/ Return \/ LogConfig

CallsSpec == InitCalls /\ [][NextCalls]_vars

\* Every script: one that runs a publisher beside start_grabbing, or one
\* that configures the camera and calls the loops (as the main of
\* camera.py, which leaves write_to_database False).
InitConf == Init \/ InitCalls

NextConf ==
    \/ Next
    \/ Call
    \/ Return
    \/ \E file \in Files : set_database_path(file)
    \/ Configure

ConfSpec == InitConf /\ [][NextConf]_vars

\* The publisher scripts with an operator who may ask the publisher to
\* stop; the asyncio loop keeps running the coroutine.
NextPub == Next \/ RequestStop

PubSpec == Init /\ [][NextPub]_vars /\ WF_vars(Publish)

\* The publisher scripts with a publisher that may stall for ever at any
\* of its awaits, while the acquisition thread keeps being scheduled.
StallSpec == Init /\ [][Next]_vars /\ WF_vars(Acquire)

\* The dashboard: the start and stop buttons, and the threads they start.
Acquire_a ==
    \/ StartGrabbing
    \/ LoopTest
    \/ RetrieveResult
    \/ SetField
    \/ WriteRow
    \/ CheckEvent

NextDash == start_run \/ stop_run \/ Acquire_a \/ Acquire_b

DashSpec == InitCalls /\ [][NextDash]_vars

\* The arithmetic of __substract_data, frame after frame, in a script that
\* may set the white point between its calls of the loops.
NextColor == SubstractData \/ \E wp \in WhitePoints : set_whitepoint(wp)

ColorSpec == InitCalls /\ [][NextColor]_vars

\* The camera's loops alone, with the file object of the append in view.
NextLog == AcquireLog \/ SetEvent

LogSpec == InitAcq /\ [][NextLog]_vars

\* ------------------------------------------------------------- claims
Grabs == operation \in {"grab", "grab_average"}

\* C1: the nine values a publisher pushes in one tick all come from one
\* sample, or are all the initial values: when the tick has read its
\* values and is about to write them, they carry one and the same frame
\* number.
C1_TickPushesOneSample ==
    pc_p = "write" => \A f, g \in Fields : value[f] = value[g]

\* C2: a tick that happens before any successful frame writes nothing to
\* the endpoint: as long as no frame has been retrieved, no node of the
\* endpoint has been written.
C2_NoPushBeforeFirstSample ==
    nFrames = 0 => \A f \in Fields : endpoint[f] = Unset

\* C3: a failing append of the log row does not end the acquisition loop:
\* the thread is never taken out of the loop by the exception of the
\* append, it is in the loop or has left it through the loop's own exit.
C3_LogFailureKeepsLoopRunning ==
    operation = "start_grabbing" =>
        /\ pc_a # "raised"
        /\ (pc_a = "done" => event)

\* C4: after k consecutive failed connection attempts exactly k waits of
\* 2 seconds have occurred when the (k+1)th attempt starts.
C4_OneBackoffPerFailedConnect ==
    (pc_p = "connect" /\ failStreak >= 1) => waitStreak = failStreak

\* C5: no failure of a connect, a write or a liveness check ends the
\* publisher loop.
C5_PublisherLoopNeverEnds ==
    pc_p # "dead"

\* C6: after a write or a liveness check has failed on a client, no write
\* is issued on that client any more: whenever the publisher is about to
\* write, its client is connected and never had such a failure.
C6_NoWriteOnFaultedSession ==
    pc_p = "write" => (client \in connected /\ client \notin faulted)

\* A write is about to be issued by a later client, after an earlier
\* client's session has faulted.
C6_Witness ==
    /\ pc_p = "write"
    /\ faulted # {}
    /\ client \notin faulted

\* Disconnected, Connecting, Connected, read off the publisher's position
\* and the session of its current client.
ConnState ==
    IF client \in connected THEN "Connected"
    ELSE IF pc_p = "connect" THEN "Connecting"
    ELSE "Disconnected"

\* C7: the connection state moves only Disconnected -> Connecting ->
\* Connected, Connecting -> Disconnected and Connected -> Disconnected; at
\* most one session is open at any time, and none is open while a client
\* connects.
C7_OneSessionAtATime ==
    [][ /\ (ConnState = "Disconnected"
               => ConnState' \in {"Disconnected", "Connecting"})
        /\ (ConnState = "Connecting"
               => ConnState' \in {"Connecting", "Connected", "Disconnected"})
        /\ (ConnState = "Connected"
               => ConnState' \in {"Connected", "Disconnected"})
        /\ Cardinality(connected') <= 1
        /\ (pc_p' = "connect" => connected' = {}) ]_vars

\* The second client is connected after the first client's session faulted.
C7_Witness ==
    /\ client = 2
    /\ connected = {2}
    /\ 1 \in faulted

\* C8: once the event is set, at most one more retrieval returns; after
\* it the loop has stopped grabbing and returned; and once the loop has
\* seen the event, no field and no row is written.
C8_StopWithinOneRetrieval ==
    [][ /\ retAfterSet' <= 1
        /\ (retAfterSet' = 1 /\ pc_a' \notin {"store", "log", "check"}
               => pc_a' = "done" /\ ~grabbing')
        /\ (pc_a = "done" => latest' = latest /\ database' = database) ]_vars

\* C9: the event is tested after every retrieval, successful or not, so
\* the loop of start_grabbing ends after the event is set, also when no
\* frame ever arrives.
C9_LoopEndsAfterEvent ==
    (operation = "start_grabbing" /\ event) ~> (pc_a \in {"done", "raised"})

\* start_grabbing has returned although every retrieval timed out, one of
\* them after the event was set.
C9_Witness ==
    /\ operation = "start_grabbing"
    /\ pc_a = "done"
    /\ nFrames = 0
    /\ retAfterSet = 1

\* C10: grab(n) and grab_average(n) stop grabbing right after the n-th
\* successful frame and have then processed exactly n samples: no frame
\* beyond the n-th is retrieved, the counter never passes n, and once the
\* n-th frame has been handled, or the call has ended, the camera has
\* stopped and the counter is n.
C10_StopsAfterNthFrame ==
    Grabs =>
        /\ nFrames <= n
        /\ counter <= n
        /\ (nFrames = n /\ pc_a \notin {"store", "log", "count"}
               => ~grabbing /\ counter = n)
        /\ (pc_a \in {"done", "raised"} => ~grabbing /\ counter = n)



\* C11: when grab_average(n) has returned, its vector is, field by field,
\* the mean of the values of exactly the n successful frames of this run
\* (the frames firstFrame + 1 .. firstFrame + n): their sum over n, with
\* nothing from a failed retrieval or from an earlier run.
C11_AverageOfTheNFrames ==
    (operation = "grab_average" /\ pc_a = "done") =>
        average_color_values =
            [f \in Fields |-> <<n * firstFrame + (n * (n + 1)) \div 2, n>>]

\* grab_average(2) has returned in a run that followed an earlier run.
C11_Witness ==
    /\ operation = "grab_average"
    /\ pc_a = "done"
    /\ n = 2
    /\ firstFrame >= 1
    /\ average_color_values # <<>>

\* C12: every log file the script has lines in starts with the header row
\* and holds it exactly once.
C12_HeaderFirstAndOnce ==
    \A f \in Files :
        database[f] # <<>> =>
            /\ Head(database[f]) = Header
            /\ Cardinality({i \in 1..Len(database[f]) :
                               database[f][i] = Header}) = 1

\* C13: with logging enabled the data rows of the file are the rows of the
\* successful frames in the order the frames were produced, one row per
\* frame: rows 1 .. k, where k is the number of frames once the last frame
\* has been handled.
C13_OneRowPerFrameInOrder ==
    write_to_database =>
        /\ database[database_path] # <<>>
        /\ Head(database[database_path]) = Header
        /\ \E k \in {nFrames - 1, nFrames} :
              Tail(database[database_path]) = [i \in 1..k |-> i]
        /\ (pc_a \notin {"store", "log"}
               => Len(database[database_path]) = nFrames + 1)

\* C14: a retrieval that times out changes nothing: the fields, the log,
\* the counter and the list of grab_average are as before, the camera
\* goes on grabbing, and the loop goes on to its next retrieval (in
\* start_grabbing through the test of the event, which stops the loop only
\* when the event is set).
C14_TimeoutChangesNothing ==
    [][ /\ (pc_a = "retrieving" /\ pc_a' # "retrieving" /\ nFrames' = nFrames)
              => /\ latest' = latest
                 /\ database' = database
                 /\ counter' = counter
                 /\ color_values_arrays' = color_values_arrays
                 /\ grabbing' = grabbing
                 /\ pc_a' \in {"loop", "check"}
                 /\ (pc_a' = "check" => operation = "start_grabbing")
        /\ (pc_a = "check" /\ ~event /\ pc_a' # "check"
              => pc_a' = "loop" /\ grabbing' = grabbing)
        /\ (pc_a = "loop" /\ grabbing /\ pc_a' # "loop"
              => pc_a' = "retrieving") ]_vars

\* In a later run of start_grabbing a retrieval has timed out before any
\* frame: the fields still hold the last sample of the run before.
C14_Witness ==
    /\ operation = "start_grabbing"
    /\ pc_a = "check"
    /\ grabbing
    /\ firstFrame >= 1
    /\ nFrames = firstFrame
    /\ \A f \in Fields : latest[f] = firstFrame

\* C15: a malformed or zero-pixel frame is discarded like a timeout: none
\* of its values is written to a field and no row is written for it.
C15_MalformedFrameDiscarded ==
    img = "malformed" =>
        /\ \A f \in Fields : latest[f] # nFrames
        /\ \A g \in Files : \A i \in 1..Len(database[g]) :
              database[g][i] # nFrames

\* C16: with the publisher stalled, every frame the device delivers is
\* processed: it is written to the fields and, logging being enabled,
\* appended to the log.
C16_FramesProcessedWhilePublisherStalls ==
    (script # "none" /\ write_to_database /\ pc_a = "store")
        ~> (/\ \A f \in Fields : latest[f] = nFrames
            /\ \E i \in 1..Len(database[database_path]) :
                  database[database_path][i] = nFrames)

\* C17: once the publisher has been asked to stop, its loop ends (in the
\* model also: it has used up the clients of the run).
C17_PublisherStopsOnRequest ==
    (script # "none" /\ stop_requested)
        ~> (pc_p = "dead" \/ (pc_p = "client" /\ client = MaxClients))

\* A thread is inside the acquisition loop.
InLoop(pc) == pc \in {"loop", "retrieving", "store", "log", "check"}

C19_OnlyFrameProcessingWritesFields ==
    [][ latest' # latest =>
           /\ img # "none"
           /\ \/ pc_a = "store" /\ latest' = [latest EXCEPT ![wIdx] = nFrames]
              \/ pc_b = "store" /\ latest' = [latest EXCEPT ![wIdx_b] = nFrames]
           /\ UNCHANGED <<pubVars, confVars>> ]_vars

\* After a run, with the sample of its last frame in the fields, the
\* script has a custom white point, a custom gain and a log path.
C19_Witness ==
    /\ pc_a = "idle"
    /\ nFrames >= 1
    /\ \A f \in Fields : latest[f] = nFrames
    /\ whitepoint = Calibrated
    /\ settings["gain"] = "custom"
    /\ database_path # 0

Tolerance == Micro \div 100

Abs(v) == IF v < 0 THEN 0 - v ELSE v

\* C21: in xyz2lab the two branches of f agree at the branch boundary:
\* whenever the ratio of a channel to the white point is _DELTA^3, the
\* cube-root branch and the linear branch give the same value there, up to
\* rounding error.
C21_BranchesAgreeAtBoundary ==
    pc_c = "lab" =>
        \A i \in 1..3 :
            Ratio(xyz[i], whitepoint[i]) = Delta3 =>
                Abs(CubeRootBranch(Delta3) - LinearBranch(Delta3))
                    <= Tolerance

\* C22: under every white point with strictly positive components,
\* rgb = (0, 0, 0) is converted to l* = 0, a* = 0, b* = 0.
C22_BlackIsZero ==
    (pc_c = "lab" /\ rgb = <<0, 0, 0>> /\ \A i \in 1..3 : whitepoint[i] > 0)
        => lab = <<0, 0, 0>>

C22_Witness ==
    /\ pc_c = "lab"
    /\ rgb = <<0, 0, 0>>
    /\ whitepoint = Calibrated
    /\ lab = <<0, 0, 0>>
    /\ sample.rgb = <<255000, 255000, 255000>>

\* C23: under the default D65 white point, rgb = (255, 255, 255) is
\* converted to l* = 100, a* = 0, b* = 0 up to numerical rounding error.
C23_WhiteIsNeutral ==
    (pc_c = "lab" /\ whitepoint = D65
        /\ rgb = <<255 * Micro, 255 * Micro, 255 * Micro>>)
        => /\ Abs(lab[1] - 100 * Micro) <= Tolerance
           /\ Abs(lab[2]) <= Tolerance
           /\ Abs(lab[3]) <= Tolerance

\* The reference response function: the cube root above delta^3, and
\* t/(3*delta^2) + delta otherwise, delta = 16/116, in the units of f.
C24_f(t) ==
    IF t > Delta3
    THEN MulDiv(CubeRootIn(t, 0, 2 * 10^8), 116, 100)
    ELSE MulDiv(MulDiv(t, 841, 48), 116, 100) + 16 * Micro

\* The reference conversion of (r, g, b) under white point wp: each
\* channel divided by 255, the 3x3 matrix, the ratios to the white point,
\* f, and l* = 116 f(y) - 16, a* = 500 (f(x) - f(y)),
\* b* = 200 (f(y) - f(z)) (each product computed before the difference).
C24_Reference(c, wp) ==
    LET m == <<<<4124, 3576, 1805>>, <<2126, 7152, 722>>,
               <<193, 1192, 9505>>>>
        nrm == [j \in 1..3 |-> MulDiv(c[j], 100, 255)]
        v == [i \in 1..3 |->
                 MulDiv(nrm[1], m[i][1], 10^4)
                     + MulDiv(nrm[2], m[i][2], 10^4)
                     + MulDiv(nrm[3], m[i][3], 10^4)]
        f == [i \in 1..3 |-> C24_f(QuotRem(v[i], wp[i], 5)[1])]
    IN  << f[2] - 16 * Micro,
           MulDiv(f[1], 500, 116) - MulDiv(f[2], 500, 116),
           MulDiv(f[2], 200, 116) - MulDiv(f[3], 200, 116) >>

\* C24: under the D65 white point, what rgb2lab computes for a frame is
\* the reference conversion of its (r, g, b), whatever else the camera
\* holds: the samples before it, its settings, its log.
C24_MatchesReference ==
    (pc_c = "lab" /\ whitepoint = D65) => lab = C24_Reference(rgb, D65)

C24_Witness ==
    /\ pc_c = "lab"
    /\ whitepoint = D65
    /\ rgb = <<0, Micro, 0>>
    /\ Ratio(xyz[1], whitepoint[1]) <= Delta3
    /\ Ratio(xyz[2], whitepoint[2]) > Delta3
    /\ lab[1] > 0
    /\ sample.whitepoint = Calibrated

\* C25: two frames processed under the same white point whose stored
\* (r, g, b) are equal have equal stored (x, y, z) and (l*, a*, b*).
C25_DerivedFromStoredRgb ==
    (sample # NoSample /\ previous # NoSample
        /\ sample.whitepoint = previous.whitepoint
        /\ sample.rgb = previous.rgb)
        => (sample.xyz = previous.xyz /\ sample.lab = previous.lab)

\* C26: whatever set_whitepoint was called with, the three components of
\* the white point xyz2lab divides by are strictly positive.
C26_WhitePointPositive == \A i \in 1..3 : whitepoint[i] > 0

\* C27: no loop runs with logging switched on and a log file that
\* set_database_path could not create or write the header of: such a
\* failure ends the script at setup.
C27_SetupFailureIsFatal ==
    (pc_a # "idle" /\ write_to_database /\ database_path # 0)
        => /\ database[database_path] # <<>>
           /\ Head(database[database_path]) = Header

\* C28: when the processing of a frame returns, the row of the frame is
\* the last line of the file, whole, and the file is closed; outside the
\* with statement no file is open and no line waits in a file object.
C28_AppendIsCompleteUnit ==
    [][ /\ (pc_a \notin {"writerow", "close"} =>
                handle = 0 /\ buffer = <<>>)
        /\ (pc_a \in {"log", "writerow", "close"}
                /\ pc_a' \in {"check", "count"}) =>
              /\ handle' = 0
              /\ buffer' = <<>>
              /\ write_to_database =>
                    database'[database_path] =
                        Append(database[database_path], nFrames) ]_vars

C28_Witness ==
    /\ pc_a = "retrieving"
    /\ write_to_database
    /\ database[database_path] = <<Header, 1, 2>>
    /\ handle = 0
    /\ buffer = <<>>

\* C29: in a session of a publisher all values of a tick are written
\* before its liveness check runs, and between the writes of one tick and
\* the reads and writes of the next a liveness check has returned: a tick
\* starts after the connect or after a liveness check only.
C29_LivenessCheckAfterWrites ==
    [][ /\ (pc_p' = "check_connection" /\ pc_p # "check_connection")
              => (pc_p = "sleep" /\ endpoint = value)
        /\ (pc_p' = "sleep" /\ pc_p # "sleep")
              => (pc_p = "write" /\ endpoint' = value)
        /\ (pc_p' = "read" /\ pc_p # "read")
              => pc_p \in {"connect", "check_connection"} ]_vars

C29_Witness ==
    /\ script = "write_to_server"
    /\ pc_p = "write"
    /\ nIdx = 1
    /\ client = 1
    /\ faulted = {}
    /\ \A f \in Fields : endpoint[f] # Unset

\* C30: a processed frame appends its row exactly when write_to_database
\* is True, with or without a path set; and set_database_path leaves
\* write_to_database as it is.
C30_RowIffWriteToDatabase ==
    [][ /\ (pc_a = "log" /\ pc_a' # "log") =>
              IF write_to_database
              THEN /\ database_path \in Files
                   /\ database'[database_path] =
                         Append(database[database_path], nFrames)
              ELSE database' = database
        /\ database_path' # database_path
              => write_to_database' = write_to_database ]_vars



\* ------------------------------------------------ the region of interest
\* Largest offset, width or height a script passes to set_roi.
MaxArg == 5

\* width=None, height=None: the defaults of set_roi.
None == 0 - 1

\* self.camera.SensorWidth.GetValue() and SensorHeight.GetValue(), in
\* pixels.
SensorWidth == 8
SensorHeight == 4

\* set_roi: the values handed to Width.SetValue, Height.SetValue,
\* OffsetX.SetValue and OffsetY.SetValue at its end, as
\* <<OffsetX, OffsetY, Width, Height>>.  Each "divisible by 4" test guards
\* the rounding to a multiple of 4, and the tests before the rounding of
\* width and of height look at offset_x.
RoiValues(offset_x, offset_y, width, height) ==
    LET w0 == IF width = None THEN SensorWidth ELSE width
        h0 == IF height = None THEN SensorHeight ELSE height
        ox == IF offset_x % 4 = 0 THEN Round(offset_x, 4) * 4 ELSE offset_x
        oy == IF offset_y % 4 = 0 THEN Round(offset_y, 4) * 4 ELSE offset_y
        w1 == IF ox % 4 = 0 THEN Round(w0, 4) * 4 ELSE w0
        h1 == IF ox % 4 = 0 THEN Round(h0, 4) * 4 ELSE h0
        w2 == IF w1 > SensorWidth THEN SensorWidth ELSE w1
        h2 == IF h1 > SensorHeight THEN SensorHeight ELSE h1
    IN  <<ox, oy, w2, h2>>

\* camera.set_roi(offset_x, offset_y, width, height), between two calls of
\* the loops.
SetRoi ==
    /\ NoLoopRuns
    /\ \E offset_x, offset_y \in 0..MaxArg,
          width, height \in {None} \cup 0..MaxArg :
          calls' = [calls EXCEPT
                       !.roi = <<offset_x, offset_y, width, height>>,
                       !.sent = RoiValues(offset_x, offset_y, width, height)]
    /\ settings' = [settings EXCEPT !["roi"] =
                       IF calls'.roi = <<0, 0, None, None>> THEN "default"
                       ELSE "custom"]
    /\ UNCHANGED <<runVars, latest, whitepoint, pubVars, dashVars,
                   stop_requested, colorVars, logVars>>

\* A script that sets the region of interest, any number of times.
NextRoi == SetRoi

RoiSpec == InitCalls /\ [][NextRoi]_vars

\* C37: whatever non-negative integers set_roi is called with, each of the
\* four values it finally sends to the device (OffsetX, OffsetY, Width,
\* Height) is a multiple of 4.
C37_SentValuesDivisibleBy4 ==
    calls.sent # <<>> => \A i \in 1..4 : calls.sent[i] % 4 = 0


\* ------------------------------------- a stop from outside, any argument
\* The numbers a script may pass to grab and grab_average as n.
Arguments == (0 - 1)..MaxN

\* camera.grab(n) or camera.grab_average(n), with any n.
CallGrab ==
    /\ NoLoopRuns
    /\ \E op \in {"grab", "grab_average"}, k \in Arguments :
          /\ operation' = op
          /\ n' = k
    /\ pc_a' = "call"
    /\ UNCHANGED <<write_to_database, latest, database, grabbing, event, wIdx,
                   counter, nFrames, retAfterSet, database_path, exists, img,
                   color_values_arrays, average_color_values, firstFrame,
                   whitepoint, settings, otherVars>>

\* camera.stop_grabbing(), called by another thread at any moment:
\* if self.camera.IsGrabbing(): self.camera.StopGrabbing()
stop_grabbing ==
    /\ grabbing
    /\ grabbing' = FALSE
    /\ UNCHANGED <<confVars, latest, database, exists, event, pc_a, wIdx,
                   counter, nFrames, retAfterSet, img, color_values_arrays,
                   average_color_values, firstFrame, otherVars>>

\* The steps of grab and grab_average.
AcquireGrab ==
    \/ ReturnZeros
    \/ StartGrabbing
    \/ LoopTest
    \/ RetrieveResult
    \/ SetField
    \/ WriteRow
    \/ Count

\* A script that sets up the log and calls grab and grab_average with any
\* n, one call after another, and a second thread that may call
\* stop_grabbing.
NextStop == AcquireGrab \/ CallGrab \/ Return \/ LogConfig \/ stop_grabbing

StopSpec == InitCalls /\ [][NextStop]_vars


\* C32: grab_average(n) with n < 1 returns nine zeros without starting to
\* grab: the step the call takes goes straight to its return with the
\* vector of zeros, retrieves no frame and leaves the latest-value fields,
\* the log files and the grabbing state of the camera as they were.
C32_BelowOneReturnsZeros ==
    [][ (pc_a = "call" /\ operation = "grab_average" /\ n < 1
            /\ pc_a' # pc_a)
        => /\ pc_a' = "done"
           /\ average_color_values' = [f \in Fields |-> <<0, 1>>]
           /\ UNCHANGED <<latest, database, exists, grabbing, nFrames>> ]_vars

\* grab_average(0) has returned its zeros in a session that logs and has
\* processed a frame before.
C32_Witness ==
    /\ operation = "grab_average"
    /\ n = 0
    /\ pc_a = "done"
    /\ average_color_values = [f \in Fields |-> <<0, 1>>]
    /\ write_to_database
    /\ database_path # 0
    /\ latest[1] > 0
    /\ Len(database[database_path]) > 1

\* C33: grab(n) stops grabbing by itself exactly when n is a positive
\* integer, at the n-th frame it counts; with any other n the call never
\* stops the camera, and a call ends only once grabbing has stopped, by
\* the call itself or, for n < 1, from outside.
C33_StopsByItselfIffPositive ==
    [][ (operation = "grab" /\ pc_a' # pc_a)
        => /\ (grabbing /\ ~grabbing')
                 <=> (grabbing /\ n >= 1 /\ pc_a = "count" /\ counter' = n)
           /\ (pc_a' \in {"done", "raised"} => ~grabbing) ]_vars

\* C34: whenever grab_average(n) with n >= 1 has left its loop and is about
\* to stack and average its list, the list holds exactly n samples.
C34_ExactlyNSamplesAveraged ==
    (operation = "grab_average" /\ n >= 1 /\ pc_a = "loop" /\ ~grabbing)
        => Len(color_values_arrays) = n


\* ------------------------- set_database_path beside a running loop
\* What a step of set_database_path leaves alone, apart from the files.
pathVars == <<operation, n, write_to_database, latest, grabbing, event,
              pc_a, wIdx, counter, nFrames, retAfterSet, img,
              color_values_arrays, average_color_values, firstFrame,
              whitepoint, settings, pubVars, dashVars, stop_requested,
              colorVars, logVars>>

\* set_database_path, called by another thread: self.__database = file
AssignPath ==
    /\ calls.pc_s = "idle"
    /\ \E file \in Files : database_path' = file
    /\ calls' = [calls EXCEPT !.pc_s = "exists"]
    /\ UNCHANGED <<exists, database, pathVars>>

\* if not (os.path.exists(self.__database)):
TestExists ==
    /\ calls.pc_s = "exists"
    /\ calls' = [calls EXCEPT !.pc_s = IF database_path \notin exists
                                       THEN "header" ELSE "idle"]
    /\ UNCHANGED <<database_path, exists, database, pathVars>>

\* try: with open(self.__database, 'a', newline='') as file: ...
\* writer.writerow(["Time", "R", ...]) except Exception: logging.error
WriteHeader ==
    /\ calls.pc_s = "header"
    /\ \E out \in WriteOutcomes : AppendLine(database_path, Header, out)
    /\ calls' = [calls EXCEPT !.pc_s = "idle"]
    /\ UNCHANGED <<database_path, pathVars>>

SetPath == AssignPath \/ TestExists \/ WriteHeader

\* A loop of the camera running in one thread while another thread calls
\* set_database_path.
NextPath == Acquire \/ SetEvent \/ SetPath

PathSpec == InitAcq /\ [][NextPath]_vars

\* C31: with write_to_database True and set_database_path called while a
\* loop runs, every log file still starts with the header row and holds it
\* exactly once: a line of a file is the header if and only if it is the
\* first line.
C31_HeaderFirstUnderConcurrentSetPath ==
    write_to_database =>
        \A f \in Files : \A i \in 1..Len(database[f]) :
            (database[f][i] = Header) <=> (i = 1)


\* ------------------------------ set_whitepoint beside a running loop
\* np.ones(3), in the units of the white point.
Ones == <<100000, 100000, 100000>>

\* What a step of set_whitepoint or a read of xyz2lab leaves alone.
whiteVars == <<runVars, latest, settings, pubVars, dashVars, stop_requested,
               logVars>>

\* set_whitepoint(x, y, z), called by another thread:
\* self.whitepoint = np.ones(3)
NewWhitepoint ==
    /\ calls.pc_w = 0
    /\ \E wp \in {D65, Calibrated} :
          calls' = [calls EXCEPT !.wp_arg = wp, !.pc_w = 1]
    /\ whitepoint' = Ones
    /\ UNCHANGED <<colorVars, whiteVars>>

\* self.whitepoint[0] = x; self.whitepoint[1] = y; self.whitepoint[2] = z,
\* one item assignment at a time.
AssignWhitepoint ==
    /\ calls.pc_w \in 1..3
    /\ whitepoint' = [whitepoint EXCEPT
                         ![calls.pc_w] = calls.wp_arg[calls.pc_w]]
    /\ calls' = [calls EXCEPT
                    !.pc_w = IF calls.pc_w = 3 THEN 0 ELSE calls.pc_w + 1,
                    !.wp_arg = IF calls.pc_w = 3 THEN <<>> ELSE calls.wp_arg]
    /\ UNCHANGED <<colorVars, whiteVars>>

\* The frame the other thread's calls fall into.
GrabFrame == sample = NoSample /\ AverageChannels

\* xyz2lab evaluates self.whitepoint[i] twice for each channel, in the
\* test "xyz[i]/self.whitepoint[i] > _DELTA**3.0" and in the branch taken,
\* each time on the array the attribute holds at that moment.
ReadWhitepoint ==
    /\ pc_c = "xyz"
    /\ Len(calls.used) < 6
    /\ calls' = [calls EXCEPT
                    !.used = Append(@, whitepoint[(Len(@) \div 2) + 1])]
    /\ UNCHANGED <<colorVars, whitepoint, whiteVars>>

\* The statement of xyz2lab for one channel, with the white point
\* component wc read by its test and wb read by the branch taken.
ResponseOfReads(v, wc, wb) ==
    IF NotFinite \in {Ratio(v, wc), Ratio(v, wb)} THEN NotFinite
    ELSE IF Ratio(v, wc) > Delta3 THEN CubeRootBranch(Ratio(v, wb))
    ELSE LinearBranch(Ratio(v, wb))

\* xyz2lab, from the six white point components u it has read.
xyz2labOfReads(v, u) ==
    LET fx == ResponseOfReads(v[1], u[1], u[2])
        fy == ResponseOfReads(v[2], u[3], u[4])
        fz == ResponseOfReads(v[3], u[5], u[6])
    IN  [i \in 1..3 |->
            CASE i = 1 -> IF fy = NotFinite THEN NotFinite
                          ELSE fy - 16 * Micro
              [] i = 2 -> IF NotFinite \in {fx, fy} THEN NotFinite
                          ELSE MulDiv(fx, 500, 116) - MulDiv(fy, 500, 116)
              [] i = 3 -> IF NotFinite \in {fy, fz} THEN NotFinite
                          ELSE MulDiv(fy, 200, 116) - MulDiv(fz, 200, 116)]

\* lab = self.xyz2lab(xyz) returns.
ReturnLab ==
    /\ pc_c = "xyz"
    /\ Len(calls.used) = 6
    /\ lab' = xyz2labOfReads(xyz, calls.used)
    /\ pc_c' = "lab"
    /\ calls' = [calls EXCEPT !.used = <<>>]
    /\ UNCHANGED <<rgb, xyz, sample, previous, whitepoint, whiteVars>>

\* __substract_data for a frame in one thread, set_whitepoint called any
\* number of times in another.
NextWhite ==
    \/ GrabFrame
    \/ ConvertToXyz
    \/ ReadWhitepoint
    \/ ReturnLab
    \/ StoreSample
    \/ NewWhitepoint
    \/ AssignWhitepoint

WhiteSpec == InitCalls /\ [][NextWhite]_vars

\* C36: the white point components a running xyz2lab has read so far are
\* the components of one configured white point, the same for the three
\* channels and for the test and the branch of each: never the transient
\* array of ones, never parts of two white points.
C36_OneWhitePointPerConversion ==
    \E wp \in WhitePoints :
        \A i \in 1..Len(calls.used) : calls.used[i] = wp[(i + 1) \div 2]


\* The acquisition thread has ended: by its event, or by an exception.
Ended == pc_a \in {"done", "raised"}

\* The publisher is in its tick loop, on an open session.
InTick == pc_p \in {"read", "write", "sleep", "check_connection"}

\* C35: once the acquisition thread has ended, nothing more is stored and
\* the nine fields keep the last stored sample; the publisher is not
\* stopped by it: in its tick loop it always has a next step and leaves
\* the loop only when a call on its own session raises; every field it
\* reads returns the value of the last stored sample, and a tick that
\* completes its write has pushed exactly the values it read.
C35_PublisherOutlivesAcquisition ==
    [][ (script # "none" /\ Ended)
        => /\ pc_a' = pc_a
           /\ latest' = latest
           /\ \A f \in Fields : latest[f] = nFrames
           /\ (InTick => ENABLED Publish)
           /\ (InTick /\ pc_p' \notin {"read", "write", "sleep",
                                        "check_connection"}
                  => client \in faulted')
           /\ (pc_p = "read" /\ rIdx' # rIdx => value'[rIdx] = nFrames)
           /\ (pc_p = "write" /\ pc_p' = "sleep" => endpoint' = value) ]_vars

\* The thread has ended by an exception after its first frame, and the
\* publisher has since read the fields and completed a tick that pushed
\* that frame to every node.
C35_Witness ==
    /\ script # "none"
    /\ pc_a = "raised"
    /\ nFrames = 1
    /\ pc_p = "sleep"
    /\ \A f \in Fields : endpoint[f] = 1 /\ value[f] = 1 /\ latest[f] = 1
====
